---- MODULE Spec2Model ----
\* Model of basilisp.lang.compiler (src/basilisp/lang/compiler/__init__.py):
\* the three compilation drivers compile_and_exec_form, compile_module and
\* compile_bytecode, with _bootstrap_module and _incremental_compile_module,
\* run as a synchronous call stack over namespaces whose module __dict__ is
\* the binding table.
EXTENDS Integers, Sequences, FiniteSets, TLC

\* ---------------------------------------------------------------- bounds
MaxCalls == 2     \* top-level driver invocations in one behaviour
MaxForms == 2     \* length of the form sequence handed to compile_module

\* ------------------------------------------------------------ namespaces
\* the namespaces alive at one time; new_namespace replaces one by a fresh one
NS == {"user"}

DEFAULT_FN == "__lisp_expr__"

\* ------------------------------------------------------ python AST nodes
\* A node of the generated Python AST, reduced to its effect on the module
\* __dict__ when executed: ty tells an ast.expr from an ast.stmt.
Node(op, name, ty, body) == [op |-> op, name |-> name, ty |-> ty, body |-> body]

DefExpr(n) == Node("Def", n, "expr", <<>>)          \* binds n when evaluated
ConstExpr == Node("Const", "", "expr", <<>>)        \* evaluates to a value
ThrowExpr == Node("Throw", "", "expr", <<>>)        \* raises when evaluated
EvalExpr(f) == Node("Eval", f, "expr", <<>>)        \* calls compile_and_exec_form
InvalidExpr == Node("Invalid", "", "expr", <<>>)    \* rejected by compile()
ImportStmt(n) == Node("Import", n, "stmt", <<>>)    \* preamble import, binds n
RaiseStmt == Node("Raise", "", "stmt", <<>>)        \* a failing statement

\* GeneratedPyAST(node=..., dependencies=...)
GeneratedPyAST(node, dependencies) == [node |-> node, dependencies |-> dependencies]

NoAST == GeneratedPyAST(ConstExpr, <<>>)

\* ----------------------------------------------------------------- forms
\* Reader forms, by name. "None" is Python's None (the absent form).
None == "None"

ExprForms == {"defx", "defy", "x", "throw", "depthrow", "bad", "ungen",
              "uncomp", "evaldefx", "evalthrow"}

Forms == {None} \cup ExprForms

\* forms offered to compile_module
ModuleForms == {"defx", "defy", "depthrow", "ungen", "uncomp"}

\* the symbols a form refers to, which the analyzer must resolve
FormRefs(form) ==
    CASE form = "defy" -> {"x"}
      [] form = "x" -> {"x"}
      [] OTHER -> {}

\* analyze_form(ctx.analyzer_context, form): fails on a malformed form and on
\* a symbol the namespace does not bind; otherwise returns the annotated tree
\* (the form again, marked analyzed).
analyze_form(table, form) ==
    IF form = "bad" \/ ~(FormRefs(form) \subseteq DOMAIN table)
    THEN [ok |-> FALSE, tree |-> form]
    ELSE [ok |-> TRUE, tree |-> form]

\* gen_py_ast(ctx.generator_context, lisp_ast): dependencies and main node
gen_py_ast(tree) ==
    CASE tree = "ungen" -> [ok |-> FALSE, ast |-> NoAST]
      [] tree = "defx" -> [ok |-> TRUE, ast |-> GeneratedPyAST(DefExpr("x"), <<>>)]
      [] tree = "defy" ->
            [ok |-> TRUE,
             ast |-> GeneratedPyAST(DefExpr("y"), <<DefExpr("d"), DefExpr("d")>>)]
      [] tree = "x" -> [ok |-> TRUE, ast |-> GeneratedPyAST(ConstExpr, <<>>)]
      [] tree = "throw" -> [ok |-> TRUE, ast |-> GeneratedPyAST(ThrowExpr, <<>>)]
      [] tree = "depthrow" ->
            [ok |-> TRUE,
             ast |-> GeneratedPyAST(ConstExpr, <<DefExpr("d"), RaiseStmt>>)]
      [] tree = "uncomp" -> [ok |-> TRUE, ast |-> GeneratedPyAST(InvalidExpr, <<>>)]
      [] tree = "evaldefx" ->
            [ok |-> TRUE, ast |-> GeneratedPyAST(EvalExpr("defx"), <<>>)]
      [] tree = "evalthrow" ->
            [ok |-> TRUE, ast |-> GeneratedPyAST(EvalExpr("throw"), <<>>)]
      [] OTHER -> [ok |-> TRUE, ast |-> NoAST]

\* py_module_preamble(ns): the imports every module starts with. The fault is
\* what the environment does to it: "generate" raises in the generator,
\* "compile" yields a tree compile() rejects, "exec" an import that fails.
PreambleFaults == {"none", "generate", "compile", "exec"}

py_module_preamble(fault) ==
    CASE fault = "generate" -> [ok |-> FALSE, ast |-> NoAST]
      [] fault = "compile" ->
            [ok |-> TRUE,
             ast |-> GeneratedPyAST(ImportStmt("imp2"), <<ImportStmt("imp1"), InvalidExpr>>)]
      [] fault = "exec" ->
            [ok |-> TRUE,
             ast |-> GeneratedPyAST(ImportStmt("imp2"), <<ImportStmt("imp1"), RaiseStmt>>)]
      [] OTHER ->
            [ok |-> TRUE,
             ast |-> GeneratedPyAST(ImportStmt("imp2"), <<ImportStmt("imp1")>>)]

\* _statementize: an ast.expr is wrapped in ast.Expr, a statement is kept
statementize(n) == IF n.ty = "expr" THEN [n EXCEPT !.ty = "stmt"] ELSE n

\* _expressionize(body, fn_name): def fn_name(): return <body.node>
expressionize(body, fn_name) == Node("FunctionDef", fn_name, "stmt", <<body.node>>)

\* PythonASTOptimizer.visit: rewrites the tree without changing what it does
optimizer_visit(module) == module

\* compile(module, filename, "exec"): the body must be statements the host
\* compiler accepts; the code object is the statement sequence.
compile(module) ==
    IF \E i \in 1..Len(module) : module[i].ty # "stmt" \/ module[i].op = "Invalid"
    THEN [ok |-> FALSE, code |-> <<>>]
    ELSE [ok |-> TRUE, code |-> module]

\* genname(prefix): prefix, "_", and the next id of the global counter
genname(prefix, id) == prefix \o "_" \o ToString(id)

\* --------------------------------------------------------- compiler_opts
\* Python's True and False, beside None, as the values of an Optional[bool]
PyTrue == "True"
PyFalse == "False"

OptionNames == {"GENERATE_AUTO_INLINES", "INLINE_FUNCTIONS",
                "WARN_ON_SHADOWED_NAME", "WARN_ON_SHADOWED_VAR",
                "WARN_ON_UNUSED_NAMES", "WARN_ON_NON_DYNAMIC_SET",
                "USE_VAR_INDIRECTION", "WARN_ON_VAR_INDIRECTION"}

\* every keyword argument left at its default of None
NoOverrides == [n \in OptionNames |-> None]

\* the empty map: no compiler_opts call has returned
NoOpts == [n \in {} |-> None]

\* Python's truth test of None, True and False
Truthy(v) == v = PyTrue

\* x or y: x when x is truthy, otherwise y
Or(x, y) == IF Truthy(x) THEN x ELSE y

\* compiler_opts with every option coalesced by an explicit presence test
compiler_opts_with_presence_test(kw) ==
    LET Given(x, y) == IF x = None THEN y ELSE x IN
    [n \in OptionNames |->
        CASE n = "GENERATE_AUTO_INLINES" -> Given(kw[n], PyTrue)
          [] n = "INLINE_FUNCTIONS" -> Given(kw[n], PyTrue)
          [] n = "WARN_ON_SHADOWED_NAME" -> Given(kw[n], PyFalse)
          [] n = "WARN_ON_SHADOWED_VAR" -> Given(kw[n], PyFalse)
          [] n = "WARN_ON_UNUSED_NAMES" -> Given(kw[n], PyTrue)
          [] n = "WARN_ON_NON_DYNAMIC_SET" -> Given(kw[n], PyTrue)
          [] n = "USE_VAR_INDIRECTION" -> Given(kw[n], PyFalse)
          [] n = "WARN_ON_VAR_INDIRECTION" -> Given(kw[n], PyTrue)]

\* compiler_opts with WARN_ON_SHADOWED_VAR read from the argument of
\* WARN_ON_SHADOWED_NAME
compiler_opts_reading_neighbour(kw) ==
    [n \in OptionNames |->
        CASE n = "GENERATE_AUTO_INLINES" -> Or(kw[n], PyTrue)
          [] n = "INLINE_FUNCTIONS" -> Or(kw[n], PyTrue)
          [] n = "WARN_ON_SHADOWED_NAME" -> Or(kw[n], PyFalse)
          [] n = "WARN_ON_SHADOWED_VAR" -> Or(kw["WARN_ON_SHADOWED_NAME"], PyFalse)
          [] n = "WARN_ON_UNUSED_NAMES" -> Or(kw[n], PyTrue)
          [] n = "WARN_ON_NON_DYNAMIC_SET" -> Or(kw[n], PyTrue)
          [] n = "USE_VAR_INDIRECTION" -> Or(kw[n], PyFalse)
          [] n = "WARN_ON_VAR_INDIRECTION" -> Or(kw[n], PyTrue)]

\* compiler_opts(...): lmap.map({NAME: argument or default, ...})
compiler_opts(kw) ==
    [n \in OptionNames |->
        CASE n = "GENERATE_AUTO_INLINES" -> Or(kw[n], PyTrue)
          [] n = "INLINE_FUNCTIONS" -> Or(kw[n], PyTrue)
          [] n = "WARN_ON_SHADOWED_NAME" -> Or(kw[n], PyFalse)
          [] n = "WARN_ON_SHADOWED_VAR" -> Or(kw[n], PyFalse)
          [] n = "WARN_ON_UNUSED_NAMES" -> Or(kw[n], PyTrue)
          [] n = "WARN_ON_NON_DYNAMIC_SET" -> Or(kw[n], PyTrue)
          [] n = "USE_VAR_INDIRECTION" -> Or(kw[n], PyFalse)
          [] n = "WARN_ON_VAR_INDIRECTION" -> Or(kw[n], PyTrue)]

\* ------------------------------------------------------------- the state
VARIABLES
    dict,           \* dict[ns]: ns.module.__dict__, name -> value
    bootstrapped,   \* bootstrapped[ns]: ns.module.__basilisp_bootstrapped__
    NameGen,        \* the global id counter behind genname
    stack,          \* the Python call stack of compiler frames, top last
    exc,            \* the exception in flight, "none" if none
    ret,            \* outcome of the top-level call that just ended
    calls,          \* top-level driver calls started so far
    cache,          \* what the importer kept of the compile_module just ended
    collected,      \* the code objects the collector of the running call got
    preambleRuns,   \* history: completed executions of the preamble unit, per ns
    log,            \* history: what the running top-level call did, in order
    overrides,      \* the keyword arguments of a compiler_opts call
    opts            \* the options map that call returned, empty before it

vars == <<dict, bootstrapped, NameGen, stack, exc, ret, calls, cache,
          collected, preambleRuns, log, overrides, opts>>

\* the state of the options construction, which no driver touches
optvars == <<overrides, opts>>

\* a value stored in a module __dict__
Value == [callable |-> FALSE, body |-> <<>>]
Function(body) == [callable |-> TRUE, body |-> body]

EmptyDict == [n \in {} |-> Value]

Put(table, n, v) == [m \in DOMAIN table \cup {n} |-> IF m = n THEN v ELSE table[m]]
Del(table, n) == [m \in DOMAIN table \ {n} |-> table[m]]

\* a frame of one of the five functions; the fields are its locals
Frame(fn, ns) ==
    [fn |-> fn, pc |-> "entry", ns |-> ns, form |-> None, forms |-> <<>>,
     code |-> <<>>, collect |-> FALSE, prefix |-> "", name |-> "",
     py_ast |-> NoAST, module |-> <<>>, bytecode |-> <<>>, body |-> <<>>,
     ip |-> 0, val |-> "None", preamble |-> FALSE, unit |-> 0,
     supplied |-> <<>>, fresh |-> FALSE, replay |-> FALSE]

NoRet == [status |-> "none", value |-> "", frame |-> Frame("", "")]
NoCache == [valid |-> FALSE, code |-> <<>>, dict |-> EmptyDict, flag |-> FALSE,
            runs |-> 0]

Top == stack[Len(stack)]
SetTop(f) == [stack EXCEPT ![Len(stack)] = f]
Push(f, g) == Append(SetTop(f), g)
Pop == SubSeq(stack, 1, Len(stack) - 1)

Drivers == {"compile_and_exec_form", "compile_module", "compile_bytecode"}

\* the frames of the top-level call itself, not of a nested evaluation
InTopCall == \A i \in 2..Len(stack) : stack[i].fn \notin Drivers

Running == stack # <<>> /\ exc = "none"
At(fn, pc) == Running /\ Top.fn = fn /\ Top.pc = pc

Init ==
    /\ dict = [ns \in NS |-> EmptyDict]
    /\ bootstrapped = [ns \in NS |-> FALSE]
    /\ NameGen = 0
    /\ stack = <<>>
    /\ exc = "none"
    /\ ret = NoRet
    /\ calls = 0
    /\ cache = NoCache
    /\ collected = <<>>
    /\ preambleRuns = [ns \in NS |-> 0]
    /\ log = <<>>
    /\ overrides = NoOverrides
    /\ opts = NoOpts

\* ------------------------------------------------------- shared machinery
CEF == "compile_and_exec_form"
CM == "compile_module"
CB == "compile_bytecode"
BOOT == "_bootstrap_module"
ICM == "_incremental_compile_module"

\* what the history records of a step of the top-level call
Event(ev, f) ==
    [ev |-> ev, fn |-> f.fn, unit |-> f.unit, preamble |-> f.preamble,
     form |-> f.form, code |-> f.bytecode, names |-> DOMAIN dict[f.ns],
     flag |-> bootstrapped[f.ns]]

Note(ev, f) == IF InTopCall THEN Append(log, Event(ev, f)) ELSE log

\* the same for a step that does several things in a row
Notes(evs, f) ==
    IF InTopCall THEN log \o [i \in DOMAIN evs |-> Event(evs[i], f)] ELSE log

Count(ev) == Cardinality({i \in DOMAIN log : log[i].ev = ev})

\* return v to the caller's frame, or to the caller of the driver
Return(v) ==
    IF Len(stack) = 1
    THEN /\ stack' = <<>>
         /\ ret' = [status |-> "returned", value |-> v, frame |-> Top]
    ELSE /\ stack' = [Pop EXCEPT ![Len(stack) - 1].val = v]
         /\ ret' = ret

\* raise: the frame stays until the exception is propagated out of it
Raise(kind) == exc' = kind /\ stack' = stack /\ ret' = ret

Goto(pc) == stack' = SetTop([Top EXCEPT !.pc = pc]) /\ exc' = exc /\ ret' = ret

\* exec(bytecode, ns.module.__dict__), one statement of the code object (or
\* of the called function) at a time, in order; a failing statement leaves
\* the bindings of the statements before it in place.
ExecStmt ==
    LET f == Top
        s == f.body[f.ip]
        g == [f EXCEPT !.ip = @ + 1]
    IN
    /\ f.ip \in 1..Len(f.body)
    /\ CASE s.op \in {"Def", "Import"} ->
              /\ dict' = [dict EXCEPT ![f.ns] = Put(@, s.name, Value)]
              /\ stack' = SetTop([g EXCEPT !.val = "var"])
              /\ exc' = exc
         [] s.op = "FunctionDef" ->
              /\ dict' = [dict EXCEPT ![f.ns] = Put(@, s.name, Function(s.body))]
              /\ stack' = SetTop(g)
              /\ exc' = exc
         [] s.op = "Const" ->
              /\ stack' = SetTop([g EXCEPT !.val = "value"])
              /\ UNCHANGED <<dict, exc>>
         [] s.op = "Eval" ->
              /\ stack' = Push(g, [Frame(CEF, f.ns) EXCEPT !.form = s.name,
                                                         !.prefix = DEFAULT_FN])
              /\ UNCHANGED <<dict, exc>>
         [] OTHER ->
              /\ exc' = "execution"
              /\ UNCHANGED <<dict, stack>>
    /\ UNCHANGED <<bootstrapped, NameGen, ret, calls, cache, collected,
                   preambleRuns, log>>

\* ------------------------------------------------- compile_and_exec_form
\* cef_entry with the test for the absent form left out
cef_entry_without_none_check ==
    /\ At(CEF, "entry")
    /\ Goto("bootstrap")
    /\ UNCHANGED <<dict, bootstrapped, NameGen, calls, cache, collected,
                   preambleRuns, log>>
    /\ UNCHANGED optvars

\* if form is None: return None
cef_entry ==
    /\ At(CEF, "entry")
    /\ IF Top.form = None
       THEN Return("None") /\ exc' = exc
       ELSE Goto("bootstrap")
    /\ UNCHANGED <<dict, bootstrapped, NameGen, calls, cache, collected,
                   preambleRuns, log>>
    /\ UNCHANGED optvars

\* cef_bootstrap with the bootstrap call left out
cef_bootstrap_skipped ==
    /\ At(CEF, "bootstrap")
    /\ Goto("genname")
    /\ UNCHANGED <<dict, bootstrapped, NameGen, calls, cache, collected,
                   preambleRuns, log>>
    /\ UNCHANGED optvars

\* if not ns.module.__basilisp_bootstrapped__: _bootstrap_module(...)
cef_bootstrap ==
    /\ At(CEF, "bootstrap")
    /\ IF ~bootstrapped[Top.ns]
       THEN stack' = Push([Top EXCEPT !.pc = "genname"], [Frame(BOOT, Top.ns) EXCEPT !.preamble = TRUE])
       ELSE stack' = SetTop([Top EXCEPT !.pc = "genname"])
    /\ UNCHANGED <<dict, bootstrapped, NameGen, exc, ret, calls, cache,
                   collected, preambleRuns, log>>
    /\ UNCHANGED optvars

\* cef_genname using the base name as it is, without a generated suffix
cef_genname_without_suffix ==
    /\ At(CEF, "genname")
    /\ NameGen' = NameGen
    /\ stack' = SetTop([Top EXCEPT !.name = Top.prefix, !.pc = "analyze"])
    /\ UNCHANGED <<dict, bootstrapped, exc, ret, calls, cache, collected,
                   preambleRuns, log>>
    /\ UNCHANGED optvars

\* final_wrapped_name = genname(wrapped_fn_name)
cef_genname ==
    /\ At(CEF, "genname")
    /\ NameGen' = NameGen + 1
    /\ stack' = SetTop([Top EXCEPT !.name = genname(Top.prefix, NameGen + 1),
                                   !.pc = "analyze"])
    /\ UNCHANGED <<dict, bootstrapped, exc, ret, calls, cache, collected,
                   preambleRuns, log>>
    /\ UNCHANGED optvars

\* lisp_ast = analyze_form(ctx.analyzer_context, form)
cef_analyze ==
    /\ At(CEF, "analyze")
    /\ IF analyze_form(dict[Top.ns], Top.form).ok
       THEN Goto("generate")
       ELSE Raise("analysis")
    /\ log' = Note("analyze", Top)
    /\ UNCHANGED <<dict, bootstrapped, NameGen, calls, cache, collected,
                   preambleRuns>>
    /\ UNCHANGED optvars

\* py_ast = gen_py_ast(ctx.generator_context, lisp_ast)
cef_generate ==
    /\ At(CEF, "generate")
    /\ LET g == gen_py_ast(analyze_form(dict[Top.ns], Top.form).tree) IN
       IF g.ok
       THEN stack' = SetTop([Top EXCEPT !.py_ast = g.ast, !.pc = "compile"])
            /\ exc' = exc /\ ret' = ret
       ELSE Raise("generation")
    /\ log' = Note("generate", Top)
    /\ UNCHANGED <<dict, bootstrapped, NameGen, calls, cache, collected,
                   preambleRuns>>
    /\ UNCHANGED optvars

\* cef_form_ast with the wrapper definition put before the dependencies
cef_form_ast_wrapper_first(py_ast, final_wrapped_name) ==
    LET chain == <<expressionize(GeneratedPyAST(py_ast.node, <<>>), final_wrapped_name)>>
                 \o py_ast.dependencies
    IN [i \in 1..Len(chain) |-> statementize(chain[i])]

\* form_ast = list(map(_statementize, chain(dependencies, [wrapper def])))
cef_form_ast(py_ast, final_wrapped_name) ==
    LET chain == py_ast.dependencies \o
                 <<expressionize(GeneratedPyAST(py_ast.node, <<>>), final_wrapped_name)>>
    IN [i \in 1..Len(chain) |-> statementize(chain[i])]

\* ast.Module(...); optimizer.visit; compile(ast_module, ctx.filename, "exec")
cef_compile ==
    /\ At(CEF, "compile")
    /\ LET ast_module == optimizer_visit(cef_form_ast(Top.py_ast, Top.name))
           c == compile(ast_module)
           f == [Top EXCEPT !.module = ast_module, !.bytecode = c.code,
                            !.unit = Count("compile") + 1, !.pc = "collect"]
       IN IF c.ok
          THEN /\ stack' = SetTop(f)
               /\ log' = Notes(<<"optimize", "compile">>, f)
               /\ exc' = exc /\ ret' = ret
          ELSE Raise("compilation") /\ log' = Note("optimize", f)
    /\ UNCHANGED <<dict, bootstrapped, NameGen, calls, cache, collected,
                   preambleRuns>>
    /\ UNCHANGED optvars

\* if collect_bytecode: collect_bytecode(bytecode)
cef_collect ==
    /\ At(CEF, "collect")
    /\ IF Top.collect
       THEN /\ collected' = Append(collected, Top.bytecode)
            /\ log' = Note("collect", Top)
       ELSE UNCHANGED <<collected, log>>
    /\ stack' = SetTop([Top EXCEPT !.pc = "exec", !.body = Top.bytecode, !.ip = 0])
    /\ UNCHANGED <<dict, bootstrapped, NameGen, exc, ret, calls, cache,
                   preambleRuns>>
    /\ UNCHANGED optvars

\* exec(bytecode, ns.module.__dict__)
cef_exec ==
    /\ At(CEF, "exec")
    /\ \/ /\ Top.ip = 0
          /\ stack' = SetTop([Top EXCEPT !.ip = 1])
          /\ log' = Note("exec", Top)
          /\ UNCHANGED <<dict, bootstrapped, NameGen, exc, ret, calls, cache,
                         collected, preambleRuns>>
       \/ ExecStmt
       \/ /\ Top.ip > Len(Top.body)
          /\ Goto("invoke")
          /\ log' = Note("done", Top)
          /\ UNCHANGED <<dict, bootstrapped, NameGen, calls, cache, collected,
                         preambleRuns>>
    /\ UNCHANGED optvars

\* try: return getattr(ns.module, final_wrapped_name)()
cef_invoke ==
    /\ At(CEF, "invoke")
    /\ IF Top.name \in DOMAIN dict[Top.ns]
       THEN /\ stack' = SetTop([Top EXCEPT !.body = dict[Top.ns][Top.name].body,
                                           !.ip = 1, !.pc = "try"])
            /\ UNCHANGED <<exc, ret>>
       ELSE /\ stack' = SetTop([Top EXCEPT !.pc = "try"])
            /\ exc' = "AttributeError"
            /\ ret' = ret
    /\ UNCHANGED <<dict, bootstrapped, NameGen, calls, cache, collected,
                   preambleRuns, log>>
    /\ UNCHANGED optvars

\* the wrapper function runs: return <main expression>
cef_try ==
    /\ At(CEF, "try")
    /\ \/ ExecStmt
       \/ /\ Top.ip > Len(Top.body)
          /\ Goto("finally")
          /\ UNCHANGED <<dict, bootstrapped, NameGen, calls, cache, collected,
                         preambleRuns, log>>
    /\ UNCHANGED optvars

\* finally: del ns.module.__dict__[final_wrapped_name], then the return
cef_finally ==
    /\ At(CEF, "finally")
    /\ IF Top.name \in DOMAIN dict[Top.ns]
       THEN /\ dict' = [dict EXCEPT ![Top.ns] = Del(@, Top.name)]
            /\ Return(Top.val)
            /\ exc' = exc
       ELSE /\ Raise("KeyError")
            /\ dict' = dict
    /\ UNCHANGED <<bootstrapped, NameGen, calls, cache, collected,
                   preambleRuns, log>>
    /\ UNCHANGED optvars

\* ------------------------------------------- _incremental_compile_module
\* module_body = list(map(_statementize, chain(dependencies, [node])))
icm_module_body(py_ast) ==
    LET chain == py_ast.dependencies \o <<py_ast.node>>
    IN [i \in 1..Len(chain) |-> statementize(chain[i])]

\* ast.Module(...); optimizer.visit; compile(module, source_filename, "exec")
icm_compile ==
    /\ At(ICM, "entry")
    /\ LET module == optimizer_visit(icm_module_body(Top.py_ast))
           c == compile(module)
           f == [Top EXCEPT !.module = module, !.bytecode = c.code,
                            !.unit = Count("compile") + 1, !.pc = "collect"]
       IN IF c.ok
          THEN /\ stack' = SetTop(f)
               /\ log' = Notes(<<"optimize", "compile">>, f)
               /\ exc' = exc /\ ret' = ret
          ELSE Raise("compilation") /\ log' = Note("optimize", f)
    /\ UNCHANGED <<dict, bootstrapped, NameGen, calls, cache, collected,
                   preambleRuns>>
    /\ UNCHANGED optvars

\* icm_collect with the collector called only once the unit has run
icm_collect_after_exec ==
    \/ /\ At(ICM, "collect")
       /\ stack' = SetTop([Top EXCEPT !.pc = "exec", !.body = Top.bytecode, !.ip = 0])
       /\ UNCHANGED <<dict, bootstrapped, NameGen, exc, ret, calls, cache,
                      collected, preambleRuns, log>>
       /\ UNCHANGED optvars
    \/ /\ At(ICM, "exec") /\ Top.ip > Len(Top.body) /\ Top.collect
       /\ collected' = Append(collected, Top.bytecode)
       /\ log' = Note("collect", Top)
       /\ stack' = SetTop([Top EXCEPT !.collect = FALSE])
       /\ UNCHANGED <<dict, bootstrapped, NameGen, exc, ret, calls, cache,
                      preambleRuns>>
       /\ UNCHANGED optvars

\* if collect_bytecode: collect_bytecode(bytecode)
icm_collect ==
    /\ At(ICM, "collect")
    /\ IF Top.collect
       THEN /\ collected' = Append(collected, Top.bytecode)
            /\ log' = Note("collect", Top)
       ELSE UNCHANGED <<collected, log>>
    /\ stack' = SetTop([Top EXCEPT !.pc = "exec", !.body = Top.bytecode, !.ip = 0])
    /\ UNCHANGED <<dict, bootstrapped, NameGen, exc, ret, calls, cache,
                   preambleRuns>>
    /\ UNCHANGED optvars

\* exec(bytecode, ns.module.__dict__)
icm_exec ==
    /\ At(ICM, "exec")
    /\ \/ /\ Top.ip = 0
          /\ stack' = SetTop([Top EXCEPT !.ip = 1])
          /\ log' = Note("exec", Top)
          /\ UNCHANGED <<dict, bootstrapped, NameGen, exc, ret, calls, cache,
                         collected, preambleRuns>>
       \/ ExecStmt
       \/ /\ Top.ip > Len(Top.body)
          /\ Return("None")
          /\ log' = Note("done", Top)
          /\ preambleRuns' = IF Top.preamble
                             THEN [preambleRuns EXCEPT ![Top.ns] = @ + 1]
                             ELSE preambleRuns
          /\ UNCHANGED <<dict, bootstrapped, NameGen, exc, calls, cache,
                         collected>>
    /\ UNCHANGED optvars

\* ----------------------------------------------------- _bootstrap_module
\* boot_entry with the flag set before the preamble is loaded
boot_entry_setting_flag_first ==
    /\ At(BOOT, "entry")
    /\ \E fault \in PreambleFaults :
          LET p == py_module_preamble(fault) IN
          IF p.ok
          THEN /\ stack' = Push([Top EXCEPT !.pc = "setflag"],
                                [Frame(ICM, Top.ns) EXCEPT !.py_ast = p.ast,
                                                           !.collect = Top.collect,
                                                           !.preamble = TRUE])
               /\ UNCHANGED <<exc, ret>>
          ELSE Raise("generation")
    /\ bootstrapped' = [bootstrapped EXCEPT ![Top.ns] = TRUE]
    /\ log' = Note("bootstrap", Top)
    /\ UNCHANGED <<dict, NameGen, calls, cache, collected, preambleRuns>>
    /\ UNCHANGED optvars

\* _incremental_compile_module(optimizer, py_module_preamble(ns), ns, ...)
boot_entry ==
    /\ At(BOOT, "entry")
    /\ \E fault \in PreambleFaults :
          LET p == py_module_preamble(fault) IN
          IF p.ok
          THEN /\ stack' = Push([Top EXCEPT !.pc = "setflag"],
                                [Frame(ICM, Top.ns) EXCEPT !.py_ast = p.ast,
                                                           !.collect = Top.collect,
                                                           !.preamble = TRUE])
               /\ UNCHANGED <<exc, ret>>
          ELSE Raise("generation")
    /\ log' = Note("bootstrap", Top)
    /\ UNCHANGED <<dict, bootstrapped, NameGen, calls, cache, collected,
                   preambleRuns>>
    /\ UNCHANGED optvars

\* ns.module.__basilisp_bootstrapped__ = True
boot_setflag ==
    /\ At(BOOT, "setflag")
    /\ bootstrapped' = [bootstrapped EXCEPT ![Top.ns] = TRUE]
    /\ Return("None")
    /\ UNCHANGED <<dict, NameGen, exc, calls, cache, collected, preambleRuns, log>>
    /\ UNCHANGED optvars

\* -------------------------------------------------------- compile_module
\* cm_entry with the collector forwarded to the bootstrap step
cm_entry_forwarding_collector ==
    /\ At(CM, "entry")
    /\ stack' = Push([Top EXCEPT !.pc = "loop"],
                     [Frame(BOOT, Top.ns) EXCEPT !.preamble = TRUE,
                                                 !.collect = Top.collect])
    /\ UNCHANGED <<dict, bootstrapped, NameGen, exc, ret, calls, cache,
                   collected, preambleRuns, log>>
    /\ UNCHANGED optvars

\* _bootstrap_module(ctx.generator_context, ctx.py_ast_optimizer, ns)
cm_entry ==
    /\ At(CM, "entry")
    /\ stack' = Push([Top EXCEPT !.pc = "loop"], [Frame(BOOT, Top.ns) EXCEPT !.preamble = TRUE])
    /\ UNCHANGED <<dict, bootstrapped, NameGen, exc, ret, calls, cache,
                   collected, preambleRuns, log>>
    /\ UNCHANGED optvars

\* cm_loop taking the forms from the end of the sequence
cm_loop_reversed ==
    /\ At(CM, "loop")
    /\ IF Top.forms = <<>>
       THEN Return("None") /\ exc' = exc
       ELSE /\ stack' = SetTop([Top EXCEPT !.form = Top.forms[Len(Top.forms)],
                                           !.forms = SubSeq(Top.forms, 1, Len(Top.forms) - 1),
                                           !.pc = "analyze"])
            /\ UNCHANGED <<exc, ret>>
    /\ UNCHANGED <<dict, bootstrapped, NameGen, calls, cache, collected,
                   preambleRuns, log>>
    /\ UNCHANGED optvars

\* for form in forms:
cm_loop ==
    /\ At(CM, "loop")
    /\ IF Top.forms = <<>>
       THEN Return("None") /\ exc' = exc
       ELSE /\ stack' = SetTop([Top EXCEPT !.form = Head(Top.forms),
                                           !.forms = Tail(Top.forms),
                                           !.pc = "analyze"])
            /\ UNCHANGED <<exc, ret>>
    /\ UNCHANGED <<dict, bootstrapped, NameGen, calls, cache, collected,
                   preambleRuns, log>>
    /\ UNCHANGED optvars

\* cm_analyze going on to the generator with a tree the analyzer rejected
cm_analyze_ignoring_failure ==
    /\ At(CM, "analyze")
    /\ Goto("generate")
    /\ log' = Note("analyze", Top)
    /\ UNCHANGED <<dict, bootstrapped, NameGen, calls, cache, collected,
                   preambleRuns>>
    /\ UNCHANGED optvars

\* analyze_form(ctx.analyzer_context, form)
cm_analyze ==
    /\ At(CM, "analyze")
    /\ IF analyze_form(dict[Top.ns], Top.form).ok
       THEN Goto("generate")
       ELSE Raise("analysis")
    /\ log' = Note("analyze", Top)
    /\ UNCHANGED <<dict, bootstrapped, NameGen, calls, cache, collected,
                   preambleRuns>>
    /\ UNCHANGED optvars

\* nodes = gen_py_ast(ctx.generator_context, ...)
cm_generate ==
    /\ At(CM, "generate")
    /\ LET g == gen_py_ast(analyze_form(dict[Top.ns], Top.form).tree) IN
       IF g.ok
       THEN stack' = SetTop([Top EXCEPT !.py_ast = g.ast, !.pc = "load"])
            /\ exc' = exc /\ ret' = ret
       ELSE Raise("generation")
    /\ log' = Note("generate", Top)
    /\ UNCHANGED <<dict, bootstrapped, NameGen, calls, cache, collected,
                   preambleRuns>>
    /\ UNCHANGED optvars

\* _incremental_compile_module(..., nodes, ns, collect_bytecode=collect_bytecode)
cm_load ==
    /\ At(CM, "load")
    /\ stack' = Push([Top EXCEPT !.pc = "loop"],
                     [Frame(ICM, Top.ns) EXCEPT !.py_ast = Top.py_ast,
                                                !.collect = Top.collect,
                                                !.form = Top.form])
    /\ UNCHANGED <<dict, bootstrapped, NameGen, exc, ret, calls, cache,
                   collected, preambleRuns, log>>
    /\ UNCHANGED optvars

\* ------------------------------------------------------ compile_bytecode
\* cb_entry with the bootstrap call left out
cb_entry_without_bootstrap ==
    /\ At(CB, "entry")
    /\ Goto("loop")
    /\ UNCHANGED <<dict, bootstrapped, NameGen, calls, cache, collected,
                   preambleRuns, log>>
    /\ UNCHANGED optvars

\* _bootstrap_module(gctx, optimizer, ns)
cb_entry ==
    /\ At(CB, "entry")
    /\ stack' = Push([Top EXCEPT !.pc = "loop"], [Frame(BOOT, Top.ns) EXCEPT !.preamble = TRUE])
    /\ UNCHANGED <<dict, bootstrapped, NameGen, exc, ret, calls, cache,
                   collected, preambleRuns, log>>
    /\ UNCHANGED optvars

\* cb_loop handing each code object to _incremental_compile_module as if it
\* were a generated tree
cb_loop_through_loader ==
    /\ At(CB, "loop")
    /\ IF Top.code = <<>>
       THEN Return("None") /\ exc' = exc
       ELSE /\ stack' = Push([Top EXCEPT !.code = Tail(Top.code),
                                         !.unit = Top.unit + 1],
                             [Frame(ICM, Top.ns) EXCEPT
                                 !.py_ast = GeneratedPyAST(
                                     Head(Top.code)[Len(Head(Top.code))],
                                     SubSeq(Head(Top.code), 1, Len(Head(Top.code)) - 1))])
            /\ UNCHANGED <<exc, ret>>
    /\ UNCHANGED <<dict, bootstrapped, NameGen, calls, cache, collected,
                   preambleRuns, log>>
    /\ UNCHANGED optvars

\* cb_loop taking the code objects from the end of the list
cb_loop_reversed ==
    /\ At(CB, "loop")
    /\ IF Top.code = <<>>
       THEN Return("None") /\ exc' = exc
       ELSE /\ stack' = SetTop([Top EXCEPT !.bytecode = Top.code[Len(Top.code)],
                                           !.body = Top.code[Len(Top.code)],
                                           !.code = SubSeq(Top.code, 1, Len(Top.code) - 1),
                                           !.unit = Top.unit + 1,
                                           !.ip = 0, !.pc = "exec"])
            /\ UNCHANGED <<exc, ret>>
    /\ UNCHANGED <<dict, bootstrapped, NameGen, calls, cache, collected,
                   preambleRuns, log>>
    /\ UNCHANGED optvars

\* for bytecode in code:
cb_loop ==
    /\ At(CB, "loop")
    /\ IF Top.code = <<>>
       THEN Return("None") /\ exc' = exc
       ELSE /\ stack' = SetTop([Top EXCEPT !.bytecode = Head(Top.code),
                                           !.body = Head(Top.code),
                                           !.code = Tail(Top.code),
                                           !.unit = Top.unit + 1,
                                           !.ip = 0, !.pc = "exec"])
            /\ UNCHANGED <<exc, ret>>
    /\ UNCHANGED <<dict, bootstrapped, NameGen, calls, cache, collected,
                   preambleRuns, log>>
    /\ UNCHANGED optvars

\* exec(bytecode, ns.module.__dict__)
cb_exec ==
    /\ At(CB, "exec")
    /\ \/ /\ Top.ip = 0
          /\ stack' = SetTop([Top EXCEPT !.ip = 1])
          /\ log' = Note("exec", Top)
          /\ UNCHANGED <<dict, bootstrapped, NameGen, exc, ret, calls, cache,
                         collected, preambleRuns>>
       \/ ExecStmt
       \/ /\ Top.ip > Len(Top.body)
          /\ Goto("loop")
          /\ log' = Note("done", Top)
          /\ UNCHANGED <<dict, bootstrapped, NameGen, calls, cache, collected,
                         preambleRuns>>
    /\ UNCHANGED optvars

\* ------------------------------------------------- exception propagation
\* Unwind with the finally clause of compile_and_exec_form left out: the
\* wrapper name is deleted only when the wrapper returns.
Unwind_without_finally ==
    /\ stack # <<>> /\ exc # "none"
    /\ stack' = Pop
    /\ IF Len(stack) = 1
       THEN /\ ret' = [status |-> "raised", value |-> exc, frame |-> Top]
            /\ exc' = "none"
       ELSE UNCHANGED <<ret, exc>>
    /\ UNCHANGED <<dict, bootstrapped, NameGen, calls, cache, collected,
                   preambleRuns, log>>
    /\ UNCHANGED optvars

\* Unwind with compile_module undoing its bindings when it fails
Unwind_with_rollback ==
    /\ stack # <<>> /\ exc # "none"
    /\ LET f == Top
           inTry == f.fn = CEF /\ f.pc = "try"
       IN /\ dict' = IF f.fn = CM THEN [dict EXCEPT ![f.ns] = EmptyDict]
                     ELSE IF inTry /\ f.name \in DOMAIN dict[f.ns]
                          THEN [dict EXCEPT ![f.ns] = Del(@, f.name)]
                          ELSE dict
          /\ stack' = Pop
          /\ IF Len(stack) = 1
             THEN /\ ret' = [status |-> "raised", value |-> exc, frame |-> f]
                  /\ exc' = "none"
             ELSE UNCHANGED <<ret, exc>>
    /\ UNCHANGED <<bootstrapped, NameGen, calls, cache, collected,
                   preambleRuns, log>>
    /\ UNCHANGED optvars

\* An exception leaves the top frame. Only compile_and_exec_form handles it:
\* inside its try the finally clause deletes the wrapper name on the way out.
Unwind ==
    /\ stack # <<>> /\ exc # "none"
    /\ LET f == Top
           inTry == f.fn = CEF /\ f.pc = "try"
           missing == inTry /\ f.name \notin DOMAIN dict[f.ns]
           e == IF missing THEN "KeyError" ELSE exc
       IN /\ dict' = IF inTry /\ ~missing
                     THEN [dict EXCEPT ![f.ns] = Del(@, f.name)]
                     ELSE dict
          /\ stack' = Pop
          /\ IF Len(stack) = 1
             THEN /\ ret' = [status |-> "raised", value |-> e, frame |-> f]
                  /\ exc' = "none"
             ELSE /\ ret' = ret
                  /\ exc' = e
    /\ UNCHANGED <<bootstrapped, NameGen, calls, cache, collected,
                   preambleRuns, log>>
    /\ UNCHANGED optvars

\* ------------------------------------------------------------ the callers
Idle == stack = <<>> /\ ret = NoRet /\ calls < MaxCalls

Fresh(ns) == dict[ns] = EmptyDict /\ ~bootstrapped[ns]

\* form sequences of at most n forms
RECURSIVE SeqsUpTo(_, _)
SeqsUpTo(S, n) ==
    IF n = 0 THEN {<<>>}
    ELSE LET shorter == SeqsUpTo(S, n - 1)
         IN shorter \cup {Append(q, x) : q \in shorter, x \in S}

\* code objects an import cache may hold besides the last collected ones
StoredCode ==
    {<<>>,
     << <<statementize(DefExpr("x"))>> >>,
     << <<statementize(DefExpr("x"))>>,
        <<statementize(DefExpr("d")), RaiseStmt, statementize(ConstExpr)>>,
        <<statementize(DefExpr("y"))>> >>}

\* the REPL, a test or eval calls compile_and_exec_form(form, ctx, ns, ...)
call_compile_and_exec_form ==
    /\ Idle
    /\ \E form \in Forms, ns \in NS, collect \in BOOLEAN :
          stack' = <<[Frame(CEF, ns) EXCEPT !.form = form,
                                            !.prefix = DEFAULT_FN,
                                            !.collect = collect,
                                            !.fresh = Fresh(ns)]>>
    /\ calls' = calls + 1
    /\ cache' = NoCache
    /\ UNCHANGED <<dict, bootstrapped, NameGen, exc, ret, collected,
                   preambleRuns, log>>
    /\ UNCHANGED optvars

\* the importer calls compile_module(forms, ctx, ns, collect_bytecode)
call_compile_module ==
    /\ Idle
    /\ \E forms \in SeqsUpTo(ModuleForms, MaxForms), ns \in NS, collect \in BOOLEAN :
          stack' = <<[Frame(CM, ns) EXCEPT !.forms = forms,
                                           !.supplied = forms,
                                           !.collect = collect,
                                           !.fresh = Fresh(ns)]>>
    /\ calls' = calls + 1
    /\ cache' = NoCache
    /\ UNCHANGED <<dict, bootstrapped, NameGen, exc, ret, collected,
                   preambleRuns, log>>
    /\ UNCHANGED optvars

\* the importer calls compile_bytecode(code, gctx, optimizer, ns)
call_compile_bytecode ==
    /\ Idle
    /\ \E ns \in NS :
          \/ /\ \E code \in StoredCode :
                   stack' = <<[Frame(CB, ns) EXCEPT !.code = code,
                                                    !.supplied = code,
                                                    !.fresh = Fresh(ns)]>>
             /\ cache' = NoCache
          \/ /\ cache.valid
             /\ stack' = <<[Frame(CB, ns) EXCEPT !.code = cache.code,
                                                 !.supplied = cache.code,
                                                 !.fresh = Fresh(ns),
                                                 !.replay = TRUE]>>
             /\ cache' = cache
    /\ calls' = calls + 1
    /\ UNCHANGED <<dict, bootstrapped, NameGen, exc, ret, collected,
                   preambleRuns, log>>
    /\ UNCHANGED optvars

\* The runtime drops the namespace and creates it anew (a reload, or the
\* next process importing the module): an empty module, not bootstrapped.
new_namespace ==
    /\ Idle
    /\ \E ns \in NS :
          /\ ~Fresh(ns)
          /\ dict' = [dict EXCEPT ![ns] = EmptyDict]
          /\ bootstrapped' = [bootstrapped EXCEPT ![ns] = FALSE]
          /\ preambleRuns' = [preambleRuns EXCEPT ![ns] = 0]
    /\ UNCHANGED <<NameGen, stack, exc, ret, calls, cache, collected, log>>
    /\ UNCHANGED optvars

\* The caller takes the outcome. An importer that compiled a module into a
\* fresh namespace keeps the collected code objects for the replay that may
\* follow; a call of another kind drops them.
Acknowledge ==
    /\ stack = <<>> /\ ret # NoRet
    /\ ret' = NoRet
    /\ cache' = IF ret.frame.fn = CM /\ ret.frame.collect /\ ret.frame.fresh
                THEN [valid |-> TRUE, code |-> collected,
                      dict |-> dict[ret.frame.ns],
                      flag |-> bootstrapped[ret.frame.ns],
                      runs |-> preambleRuns[ret.frame.ns]]
                ELSE cache
    /\ collected' = <<>>
    /\ log' = <<>>
    /\ UNCHANGED <<dict, bootstrapped, NameGen, stack, exc, calls, preambleRuns>>
    /\ UNCHANGED optvars

Next ==
    \/ call_compile_and_exec_form
    \/ call_compile_module
    \/ call_compile_bytecode
    \/ new_namespace
    \/ Acknowledge
    \/ cef_entry
    \/ cef_bootstrap
    \/ cef_genname
    \/ cef_analyze
    \/ cef_generate
    \/ cef_compile
    \/ cef_collect
    \/ cef_exec
    \/ cef_invoke
    \/ cef_try
    \/ cef_finally
    \/ icm_compile
    \/ icm_collect
    \/ icm_exec
    \/ boot_entry
    \/ boot_setflag
    \/ cm_entry
    \/ cm_loop
    \/ cm_analyze
    \/ cm_generate
    \/ cm_load
    \/ cb_entry
    \/ cb_loop
    \/ cb_exec
    \/ Unwind

Spec == Init /\ [][Next]_vars

\* ------------------------------------------- the options construction alone
\* what a caller may pass for an Optional[bool] keyword argument
OptionalBool == {None, PyTrue, PyFalse}

\* a session about to build its options, with any combination of arguments
OptsInit ==
    /\ dict = [ns \in NS |-> EmptyDict]
    /\ bootstrapped = [ns \in NS |-> FALSE]
    /\ NameGen = 0
    /\ stack = <<>>
    /\ exc = "none"
    /\ ret = NoRet
    /\ calls = 0
    /\ cache = NoCache
    /\ collected = <<>>
    /\ preambleRuns = [ns \in NS |-> 0]
    /\ log = <<>>
    /\ overrides \in [OptionNames -> OptionalBool]
    /\ opts = NoOpts

\* opts = compiler_opts(**overrides)
call_compiler_opts ==
    /\ stack = <<>> /\ opts = NoOpts
    /\ opts' = compiler_opts(overrides)
    /\ UNCHANGED <<dict, bootstrapped, NameGen, stack, exc, ret, calls, cache,
                   collected, preambleRuns, log, overrides>>

OptsNext == call_compiler_opts

OptsSpec == OptsInit /\ [][OptsNext]_vars

\* ================================================================ claims
Ended == stack = <<>> /\ ret.status # "none"
EndedFn(fn) == Ended /\ ret.frame.fn = fn

\* the names genname has handed out so far
WrapperNames == {genname(DEFAULT_FN, i) : i \in 1..NameGen}

\* C1: the preamble unit is executed in a namespace exactly once, whatever
\* sequence of driver invocations runs on it: never a second time.
C1_PreambleAtMostOnce == \A ns \in NS : preambleRuns[ns] <= 1

\* C2: a wrapper name is bound in a namespace only while the
\* compile_and_exec_form call that generated it is between its exec and its
\* cleanup; once that call has ended, by a return or by any failure, the
\* namespace holds no binding under the name.
C2_WrapperCleanup ==
    \A ns \in NS : \A n \in DOMAIN dict[ns] \cap WrapperNames :
        \E i \in DOMAIN stack :
            /\ stack[i].fn = CEF /\ stack[i].ns = ns /\ stack[i].name = n
            /\ stack[i].pc \in {"exec", "invoke", "try", "finally"}

\* the wrapper invocation raised, and the caller finds the name gone
C2_Witness ==
    /\ EndedFn(CEF) /\ ret.status = "raised" /\ ret.value = "execution"
    /\ ret.frame.pc = "try"
    /\ ret.frame.name \in WrapperNames
    /\ ret.frame.name \notin DOMAIN dict[ret.frame.ns]

Events(ev) == {i \in DOMAIN log : log[i].ev = ev}

\* the driver frame of the top-level call, running or just ended
TopCall == IF stack # <<>> THEN stack[1] ELSE ret.frame

\* a bootstrap step of the call began and its preamble did not complete
BootIncomplete ==
    \E i \in Events("bootstrap") :
        ~\E j \in Events("done") : j > i /\ log[j].preamble

\* C3 as stated: with a collector, compile_module and compile_and_exec_form
\* invoke it as many times as units were compiled during the call, the
\* preamble unit of the bootstrap step included.
C3_CollectorCountsEveryUnit ==
    Ended /\ ret.frame.fn \in {CEF, CM} /\ ret.frame.collect
        => Len(collected) = Count("compile")

\* C3 amended: with a collector, the collector is invoked once for each
\* per-form unit compiled during the call and never for the preamble unit.
C3_CollectorCountsFormUnits ==
    Ended /\ ret.frame.fn \in {CEF, CM} /\ ret.frame.collect
        => /\ Len(collected) =
                 Cardinality({i \in Events("compile") : ~log[i].preamble})
           /\ Count("collect") = Len(collected)
           /\ \A i \in Events("collect") :
                 /\ ~log[i].preamble
                 /\ \E c \in Events("compile") : log[c].unit = log[i].unit
                 /\ \A j \in Events("collect") :
                       log[j].unit = log[i].unit => j = i

\* compile_module with a collector compiled the preamble and two form units
C3_Witness ==
    /\ EndedFn(CM) /\ ret.frame.collect
    /\ Len(collected) = 2
    /\ \E i \in Events("compile") : log[i].preamble

\* C4: with a collector, a unit's execution begins only after the collector
\* was invoked with that unit, in a namespace the unit has not yet touched,
\* and no collector invocation follows the start of its unit's execution;
\* the collector keeps the unit whatever the execution does next.
C4_CollectBeforeExec ==
    TopCall.collect =>
        /\ \A i \in Events("exec") :
              ~log[i].preamble /\ log[i].fn \in {CEF, ICM} =>
                 \E j \in Events("collect") :
                    /\ j < i
                    /\ log[j].unit = log[i].unit
                    /\ log[j].names = log[i].names
                    /\ Cardinality({k \in Events("collect") : k <= j}) <= Len(collected)
                    /\ collected[Cardinality({k \in Events("collect") : k <= j})]
                          = log[i].code
        /\ \A j \in Events("collect") :
              ~\E i \in Events("exec") : i < j /\ log[i].unit = log[j].unit

\* a collected unit whose execution then failed
C4_Witness ==
    /\ Ended /\ ret.status = "raised" /\ ret.value = "execution"
    /\ ret.frame.collect
    /\ log # <<>> /\ log[Len(log)].ev = "exec" /\ ~log[Len(log)].preamble
    /\ collected # <<>> /\ collected[Len(collected)] = log[Len(log)].code

\* C5: replaying the code objects collected from compile_module on a fresh
\* namespace into another fresh namespace with compile_bytecode gives the
\* same bindings and the same bootstrapped flag, the preamble having run
\* once in each (both bootstrap steps having gone through).
C5_ReplayEquivalence ==
    EndedFn(CB) /\ ret.frame.replay /\ ret.frame.fresh /\ cache.flag
                /\ ~BootIncomplete
        => /\ dict[ret.frame.ns] = cache.dict
           /\ bootstrapped[ret.frame.ns] = cache.flag
           /\ preambleRuns[ret.frame.ns] = 1
           /\ cache.runs = 1

\* a module of two forms was replayed
C5_Witness ==
    /\ EndedFn(CB) /\ ret.frame.replay /\ ret.frame.fresh /\ cache.flag
    /\ ~BootIncomplete
    /\ Len(cache.code) = 2
    /\ {"x", "y"} \subseteq DOMAIN dict[ret.frame.ns]

\* the forms analyzed by the running call, in the order of their analysis
Analyzed == SelectSeq(log, LAMBDA e : e.ev = "analyze")
AnalyzedForms == [i \in DOMAIN Analyzed |-> Analyzed[i].form]

\* C6: compile_module analyzes the forms in the order supplied, and each
\* analysis starts only when the unit loaded before it (the preamble, then
\* the previous form's unit) has finished executing, in the namespace that
\* unit left; so on a fresh namespace (def x) then (def y x) compiles, and
\* (def y x) then (def x) fails in analysis at its first form.
C6_SequentialVisibility ==
    TopCall.fn = CM =>
        /\ Len(AnalyzedForms) <= Len(TopCall.supplied)
        /\ AnalyzedForms = SubSeq(TopCall.supplied, 1, Len(AnalyzedForms))
        /\ \A i \in Events("analyze") :
              /\ i > 1
              /\ log[i - 1].ev = "done"
              /\ log[i - 1].names = log[i].names
        /\ Ended /\ ret.frame.fresh /\ ~BootIncomplete =>
              /\ ret.frame.supplied = <<"defx", "defy">> =>
                    ret.status = "returned" /\ "y" \in DOMAIN dict[ret.frame.ns]
              /\ ret.frame.supplied = <<"defy", "defx">> =>
                    /\ ret.status = "raised" /\ ret.value = "analysis"
                    /\ Len(AnalyzedForms) = 1
                    /\ "x" \notin DOMAIN dict[ret.frame.ns]

\* the second form was analyzed against the binding the first one made
C6_Witness ==
    /\ EndedFn(CM) /\ ret.frame.fresh /\ ret.status = "returned"
    /\ ret.frame.supplied = <<"defx", "defy">>
    /\ "x" \in Analyzed[2].names
    /\ "y" \in DOMAIN dict[ret.frame.ns]

\* a frame that is executing a unit other than the preamble
ExecutingUnit(f) ==
    \/ f.fn = CEF /\ f.pc = "exec" /\ f.ip >= 1
    \/ f.fn = CEF /\ f.pc \in {"invoke", "try", "finally"}
    \/ f.fn = ICM /\ ~f.preamble /\ f.pc = "exec" /\ f.ip >= 1
    \/ f.fn = CB /\ f.pc = "exec" /\ f.ip >= 1

BootstrappedWhereExecuting ==
    \A i \in DOMAIN stack :
        ExecutingUnit(stack[i]) => bootstrapped[stack[i].ns]

\* C7: a form's unit or a replayed unit executes only in a namespace whose
\* bootstrapped flag is true, and no step of a driver, failing or not, takes
\* the flag from true back to false.
C7_BootstrapBeforeUse ==
    [][/\ BootstrappedWhereExecuting'
       /\ stack # <<>> =>
             \A ns \in NS : bootstrapped[ns] => bootstrapped'[ns]]_vars

\* a unit failed in a bootstrapped namespace and the flag is still set
C7_Witness ==
    /\ Ended /\ ret.status = "raised" /\ ret.value = "execution"
    /\ \E i \in Events("exec") : ~log[i].preamble
    /\ bootstrapped[ret.frame.ns]

\* the drivers' calls of the bootstrap step
AtBootPoint ==
    \/ At(CEF, "bootstrap")
    \/ At(CM, "entry")
    \/ At(CB, "entry")

\* a call that ended with its preamble not loaded raised, and did not set
\* a flag that was unset when its bootstrap step began
FailedBootLeavesFlag ==
    Ended /\ BootIncomplete =>
        /\ ret.status = "raised"
        /\ ret.value \in {"generation", "compilation", "execution"}
        /\ \A i \in Events("bootstrap") :
              ~log[i].flag => ~bootstrapped[ret.frame.ns]

\* C8: a failure of the bootstrap step reaches the caller with the flag
\* still false, and a driver that finds the flag false calls the bootstrap
\* step (again).
C8_BootstrapFailure ==
    [][/\ FailedBootLeavesFlag'
       /\ AtBootPoint /\ ~bootstrapped[Top.ns] =>
             /\ Len(stack') = Len(stack) + 1
             /\ stack'[Len(stack')].fn = BOOT]_vars

\* the preamble failed half way in an earlier call, and a later call is in
\* the bootstrap step of the same namespace
C8_Witness ==
    /\ Running /\ Top.fn = BOOT /\ Top.pc = "entry"
    /\ ~bootstrapped[Top.ns]
    /\ "imp1" \in DOMAIN dict[Top.ns]
    /\ "imp2" \notin DOMAIN dict[Top.ns]

\* C9: compile_and_exec_form(None, ...) returns None at once: the namespace,
\* the name counter, the collector and the history are as before, and no
\* bootstrap step is called.
C9_EmptyFormNoOp ==
    [][At(CEF, "entry") /\ Top.form = None =>
          /\ UNCHANGED <<dict, bootstrapped, NameGen, collected, preambleRuns, log>>
          /\ stack' = Pop
          /\ exc' = "none"
          /\ Len(stack) = 1 => ret'.status = "returned" /\ ret'.value = "None"]_vars

\* the absent form was evaluated in a namespace never bootstrapped
C9_Witness ==
    /\ EndedFn(CEF) /\ ret.frame.form = None
    /\ ret.status = "returned" /\ ret.value = "None"
    /\ ~bootstrapped[ret.frame.ns]
    /\ ret.frame.name = ""
    /\ log = <<>> /\ collected = <<>>

\* C10: when compile_module raises while processing form k, the forms after
\* k are untouched, the forms before k were loaded completely, and every
\* binding present when one of their units finished is still present.
C10_AbortWithoutRollback ==
    EndedFn(CM) /\ ret.status = "raised" /\ Len(Analyzed) >= 1 =>
        LET k == Len(Analyzed)
            supplied == ret.frame.supplied
            last == CHOOSE i \in Events("analyze") :
                        \A j \in Events("analyze") : j <= i
        IN /\ k <= Len(supplied)
           /\ AnalyzedForms = SubSeq(supplied, 1, k)
           /\ ret.frame.forms = SubSeq(supplied, k + 1, Len(supplied))
           /\ Cardinality({i \in Events("done") : ~log[i].preamble}) = k - 1
           /\ \A i \in Events("done") : i < last
           /\ Cardinality({i \in Events("compile") : i > last}) <= 1
           /\ Cardinality({i \in Events("exec") : i > last}) <= 1
           /\ \A i \in Events("done") : log[i].names \subseteq DOMAIN dict[ret.frame.ns]

\* the second form failed and the first form's binding is still there
C10_Witness ==
    /\ EndedFn(CM) /\ ret.status = "raised"
    /\ Len(Analyzed) = 2
    /\ ret.frame.supplied[1] = "defx"
    /\ "x" \in DOMAIN dict[ret.frame.ns]

\* the units compile_bytecode began to execute, in the order it began them
CBExecs == SelectSeq(log, LAMBDA e : e.ev = "exec" /\ e.fn = CB)
CBDone == {i \in Events("done") : log[i].fn = CB}

\* C11: compile_bytecode bootstraps the namespace first and then executes
\* the supplied code objects in the order supplied, each once; when the
\* execution of unit k fails the failure reaches the caller, the units after
\* k are never executed and what the units before k bound is still bound.
C11_ReplayOrderAndAbort ==
    TopCall.fn = CB =>
        LET n == Len(CBExecs)
            supplied == TopCall.supplied
        IN /\ n <= Len(supplied)
           /\ \A i \in 1..n : CBExecs[i].code = supplied[i] /\ CBExecs[i].unit = i
           /\ TopCall.unit \in {n, n + 1}
           /\ TopCall.code = SubSeq(supplied, TopCall.unit + 1, Len(supplied))
           /\ log # <<>> => log[1].ev = "bootstrap"
           /\ \A i \in Events("exec") :
                 log[i].fn = CB =>
                    /\ log[i].flag
                    /\ \E j \in Events("done") : j < i /\ log[j].preamble
           /\ Cardinality(CBDone) \in {n - 1, n}
           /\ Ended /\ ret.status = "returned" =>
                 n = Len(supplied) /\ Cardinality(CBDone) = n
           /\ Ended /\ ret.status = "raised" /\ n >= 1 =>
                 /\ ret.value = "execution"
                 /\ Cardinality(CBDone) = n - 1
                 /\ ret.frame.code = SubSeq(supplied, n + 1, Len(supplied))
                 /\ \A i \in Events("done") :
                       log[i].names \subseteq DOMAIN dict[ret.frame.ns]

\* the second of three units failed: the first one's binding is there, the
\* third was never executed
C11_Witness ==
    /\ EndedFn(CB) /\ ret.status = "raised" /\ ret.value = "execution"
    /\ Len(ret.frame.supplied) = 3
    /\ Len(CBExecs) = 2
    /\ Len(ret.frame.code) = 1
    /\ "x" \in DOMAIN dict[ret.frame.ns]
    /\ "y" \notin DOMAIN dict[ret.frame.ns]

\* the value each option takes when nothing is said about it
DefaultOf(n) ==
    IF n \in {"GENERATE_AUTO_INLINES", "INLINE_FUNCTIONS", "WARN_ON_UNUSED_NAMES",
              "WARN_ON_NON_DYNAMIC_SET", "WARN_ON_VAR_INDIRECTION"}
    THEN PyTrue ELSE PyFalse

\* C12: compiler_opts without overrides gives each of the eight options its
\* default, every result holds all eight names, and an option's value is
\* the same whatever is passed for any other option.
C12_OptionsDefaulting ==
    opts # NoOpts =>
        /\ DOMAIN opts = OptionNames
        /\ Cardinality(DOMAIN opts) = 8
        /\ \A n \in OptionNames : opts[n] \in {PyTrue, PyFalse}
        /\ overrides = NoOverrides => \A n \in OptionNames : opts[n] = DefaultOf(n)
        /\ \A n \in OptionNames : \A m \in OptionNames \ {n} : \A v \in OptionalBool :
              compiler_opts([overrides EXCEPT ![m] = v])[n] = opts[n]

\* an option set beside its neighbour: each keeps its own value
C12_Witness ==
    /\ opts # NoOpts
    /\ overrides["WARN_ON_SHADOWED_NAME"] = PyTrue
    /\ overrides["WARN_ON_SHADOWED_VAR"] = None
    /\ overrides["INLINE_FUNCTIONS"] = PyFalse
    /\ opts["WARN_ON_SHADOWED_NAME"] = PyTrue
    /\ opts["WARN_ON_SHADOWED_VAR"] = PyFalse

\* C13: an option whose default is true comes out true whether its override
\* is absent, false or true; an option whose default is false comes out true
\* exactly when its override is true.
C13_FalsyDefaultCoalescing ==
    opts # NoOpts =>
        \A n \in OptionNames :
            /\ opts[n] \in {PyTrue, PyFalse}
            /\ IF DefaultOf(n) = PyTrue
               THEN opts[n] = PyTrue
               ELSE opts[n] = PyTrue <=> overrides[n] = PyTrue

\* an explicit false for a true-by-default option came out true, and for a
\* false-by-default option came out false
C13_Witness ==
    /\ opts # NoOpts
    /\ overrides["GENERATE_AUTO_INLINES"] = PyFalse
    /\ opts["GENERATE_AUTO_INLINES"] = PyTrue
    /\ overrides["USE_VAR_INDIRECTION"] = PyFalse
    /\ opts["USE_VAR_INDIRECTION"] = PyFalse
    /\ overrides["WARN_ON_SHADOWED_VAR"] = PyTrue
    /\ opts["WARN_ON_SHADOWED_VAR"] = PyTrue

\* C14 as stated: during a compile_bytecode call the analyzer, the generator
\* and the optimizer are never invoked.
C14_ReplayInvokesNoPhase ==
    TopCall.fn = CB =>
        \A i \in DOMAIN log : log[i].ev \notin {"analyze", "generate", "optimize"}

\* C14 amended: during a compile_bytecode call analyze_form and gen_py_ast
\* are never invoked and no supplied unit is optimized or compiled; the
\* optimizer runs only on the preamble inside the bootstrap step, at most
\* once, and all that is executed is the preamble and the supplied units.
C14_ReplaySkipsPhasesForUnits ==
    TopCall.fn = CB =>
        /\ \A i \in DOMAIN log : log[i].ev \notin {"analyze", "generate", "collect"}
        /\ \A i \in Events("optimize") \cup Events("compile") :
              log[i].preamble /\ log[i].fn = ICM
        /\ Count("optimize") <= 1
        /\ \A i \in Events("optimize") : i = 2 /\ log[1].ev = "bootstrap"
        /\ \A i \in Events("exec") :
              \/ log[i].preamble /\ log[i].fn = ICM
              \/ /\ log[i].fn = CB
                 /\ \E k \in DOMAIN TopCall.supplied : TopCall.supplied[k] = log[i].code

\* a replay of two collected units ended: the only optimizer run was on the
\* preamble
C14_Witness ==
    /\ EndedFn(CB) /\ ret.status = "returned" /\ ret.frame.replay
    /\ Len(CBExecs) = 2
    /\ Count("optimize") = 1
    /\ Count("analyze") = 0

\* a driver is about to analyze a form the analyzer rejects
AnalysisFails ==
    /\ At(CEF, "analyze") \/ At(CM, "analyze")
    /\ ~analyze_form(dict[Top.ns], Top.form).ok

\* a call that ended in an analysis failure did nothing after the analysis
\* began: the history ends there, with the names the namespace has now
NothingAfterFailedAnalysis ==
    Ended /\ ret.status = "raised" /\ ret.value = "analysis" =>
        /\ ret.frame.fn \in {CEF, CM} /\ ret.frame.pc = "analyze"
        /\ log # <<>> /\ log[Len(log)].ev = "analyze"
        /\ log[Len(log)].form = ret.frame.form
        /\ log[Len(log)].names = DOMAIN dict[ret.frame.ns]
        /\ Len(collected) = Count("collect")
        /\ Count("compile") = Count("done")

\* C15: when the analysis of a form fails in compile_and_exec_form or in
\* compile_module, the failure reaches the caller as it was raised, no unit
\* of the form is assembled, collected or executed, and the namespace is
\* left as it was when the analysis began.
C15_AnalysisFailureFirst ==
    [][/\ AnalysisFails =>
             /\ exc' = "analysis"
             /\ UNCHANGED <<dict, bootstrapped, collected, stack>>
       /\ exc = "analysis" =>
             /\ UNCHANGED <<dict, bootstrapped, collected, log>>
             /\ stack' = Pop
             /\ \/ stack' # <<>> /\ exc' = "analysis"
                \/ /\ stack' = <<>> /\ exc' = "none"
                   /\ ret'.status = "raised" /\ ret'.value = "analysis"
       /\ NothingAfterFailedAnalysis']_vars

\* compile_module with a collector failed in the analysis of its first form:
\* the namespace holds the preamble only and nothing was collected
C15_Witness ==
    /\ EndedFn(CM) /\ ret.status = "raised" /\ ret.value = "analysis"
    /\ ret.frame.collect /\ collected = <<>>
    /\ ret.frame.form = "defy"
    /\ Len(ret.frame.forms) = 1
    /\ DOMAIN dict[ret.frame.ns] = {"imp1", "imp2"}

\* a frame that holds an assembled unit
Assembled(f) ==
    /\ f.fn \in {CEF, ICM}
    /\ f.pc \in {"collect", "exec", "invoke", "try", "finally"}

\* the fragment that goes last: the wrapper definition around the main
\* expression in compile_and_exec_form, the main node itself otherwise
MainFragment(f) ==
    IF f.fn = CEF
    THEN Node("FunctionDef", f.name, "stmt", <<f.py_ast.node>>)
    ELSE f.py_ast.node

\* statement s is fragment n, made a statement
SameFragment(s, n) ==
    s.op = n.op /\ s.name = n.name /\ s.body = n.body /\ s.ty = "stmt"

\* C16: the statements of every assembled unit are the generator's
\* dependency fragments in the order generated, as many as were generated,
\* followed by the main fragment (in compile_and_exec_form the wrapper
\* definition); so the wrapper name is bound only when every dependency
\* statement of its unit has executed.
C16_IntraUnitOrder ==
    \A k \in DOMAIN stack :
        LET f == stack[k]
            deps == f.py_ast.dependencies
        IN Assembled(f) =>
              /\ Len(f.module) = Len(deps) + 1
              /\ \A i \in DOMAIN deps : SameFragment(f.module[i], deps[i])
              /\ SameFragment(f.module[Len(f.module)], MainFragment(f))
              /\ f.bytecode = f.module
              /\ f.pc = "exec" => f.body = f.module
              /\ f.fn = CEF /\ f.name \in DOMAIN dict[f.ns] =>
                    /\ f.pc # "collect"
                    /\ f.pc = "exec" => f.ip = Len(f.body) + 1

\* a unit with the same dependency twice: both have executed and the wrapper
\* definition, the third statement, is next
C16_Witness ==
    /\ At(CEF, "exec") /\ Top.form = "defy"
    /\ Len(Top.py_ast.dependencies) = 2
    /\ Top.py_ast.dependencies[1] = Top.py_ast.dependencies[2]
    /\ Len(Top.module) = 3 /\ Top.ip = 3
    /\ "d" \in DOMAIN dict[Top.ns]
    /\ Top.name \notin DOMAIN dict[Top.ns]

\* the invocations of compile_and_exec_form in progress that have a name
Invocations == {k \in DOMAIN stack : stack[k].fn = CEF /\ stack[k].name # ""}

\* an invocation waiting for an evaluation it started still has its wrapper
WaitingWrappersBound ==
    \A k \in Invocations :
        k < Len(stack) /\ stack[k].pc = "try" =>
            /\ stack[k].name \in DOMAIN dict[stack[k].ns]
            /\ dict[stack[k].ns][stack[k].name].callable

\* C17: each compile_and_exec_form invocation on a non-empty form gets a
\* wrapper name no other invocation has or had, an invocation started while
\* an outer wrapper is executing included; a driver step that removes a
\* binding is the cleanup of the running invocation removing its own
\* wrapper and nothing else, and once the evaluations are over the namespace
\* holds no wrapper binding.
C17_WrapperIsolation ==
    [][/\ At(CEF, "genname") =>
             LET n == stack'[Len(stack')].name
             IN /\ n \notin WrapperNames /\ n \in WrapperNames'
                /\ \A k \in DOMAIN stack : stack[k].name # n
                /\ \A ns \in NS : n \notin DOMAIN dict[ns]
       /\ stack # <<>> =>
             \A ns \in NS : \A n \in DOMAIN dict[ns] \ DOMAIN dict'[ns] :
                /\ Top.fn = CEF /\ Top.pc \in {"try", "finally"}
                /\ Top.ns = ns /\ Top.name = n
                /\ \A m \in DOMAIN dict[ns] \ {n} :
                      m \in DOMAIN dict'[ns] /\ dict'[ns][m] = dict[ns][m]
       /\ \A k \in Invocations : \A j \in Invocations :
             stack[k].name = stack[j].name => k = j
       /\ WaitingWrappersBound'
       /\ stack' = <<>> =>
             \A ns \in NS : DOMAIN dict'[ns] \cap WrapperNames' = {}]_vars

\* a nested evaluation has ended and removed its own wrapper: the outer
\* wrapper, which called it, is still bound, and so is what the inner form
\* defined
C17_Witness ==
    /\ At(CEF, "try") /\ Len(stack) = 1
    /\ Top.form = "evaldefx" /\ Top.ip > Len(Top.body)
    /\ NameGen >= 2
    /\ Top.name \in DOMAIN dict[Top.ns]
    /\ DOMAIN dict[Top.ns] \cap WrapperNames = {Top.name}
    /\ "x" \in DOMAIN dict[Top.ns]
====
